---- MODULE Spec2Model ----
(***************************************************************************)
(* Model of copyFilePaths.py: FilePathExtractor (read_params_file,         *)
(* extract_file_paths, copy_file_paths, process) and main.                 *)
(*                                                                         *)
(* Text is a sequence of Unicode code points, file content a sequence of   *)
(* bytes, a list of lines a sequence of texts.                             *)
(***************************************************************************)
EXTENDS Integers, Sequences, FiniteSets

VARIABLES
    platform,            \* sys.platform
    fileKind,            \* what Path(filepath) names: missing, dir, unreadable, file
    fileBytes,           \* the bytes of the input file
    pc,                  \* position of the run
    clipboard_encoding,  \* self.clipboard_encoding
    attempts,            \* encodings read_text was called with, in order
    content,             \* read_params_file's return value ([none |-> TRUE] is None)
    file_paths,          \* extract_file_paths' return value
    result,              \* copy_file_paths' local: the joined text
    out,                 \* console messages printed, in order
    listing,             \* the entries of the enumerated listing, in order
    fallback,            \* the text printed between the separator lines
    popens,              \* number of subprocess.Popen(['clip']) calls
    clipInput,           \* bytes handed to clip's stdin by communicate
    clipStatus,          \* clip's exit status (-1: not run)
    success,             \* process' return value
    exitCode,            \* the process' exit code (-1: still running)
    interruptedAt,       \* pc at which KeyboardInterrupt was raised ("" if none)
    calls                \* the methods process has called, in order

vars == <<platform, fileKind, fileBytes, pc, clipboard_encoding, attempts,
          content, file_paths, result, out, listing, fallback, popens,
          clipInput, clipStatus, success, exitCode, interruptedAt, calls>>

----------------------------------------------------------------------------
(* Bounds *)

\* longest input file, in bytes
MaxFileLen == 4
\* longest raw line handed to the Normalizer on its own, in code points
MaxLineLen == 2
\* most raw lines handed to the Normalizer on its own
MaxLines == 2

\* bytes a file is made of: LF, space, 'A', 'a', 0x81, 0xC2
FileBytes == {10, 32, 65, 97, 129, 194}

\* code points a raw line is made of: space, 'A', 'a', 'b'
LineChars == {32, 65, 97, 98}

SeqsUpTo(S, n) == UNION {[1..k -> S] : k \in 0..n}

----------------------------------------------------------------------------
(* str methods used by extract_file_paths and read_params_file *)

\* str.isspace for the code points below U+1680
IsSpace(c) == c \in {9, 10, 11, 12, 13, 28, 29, 30, 31, 32, 133, 160}

RECURSIVE lstrip(_)
lstrip(s) ==
    IF s = <<>> THEN <<>>
    ELSE IF IsSpace(Head(s)) THEN lstrip(Tail(s)) ELSE s

RECURSIVE rstrip(_)
rstrip(s) ==
    IF s = <<>> THEN <<>>
    ELSE IF IsSpace(s[Len(s)]) THEN rstrip(SubSeq(s, 1, Len(s) - 1)) ELSE s

\* line.strip()
strip(s) == rstrip(lstrip(s))

\* str.lower for one code point below U+0100 (the code points above it that
\* a file of FileBytes decodes to are CJK ideographs, which have no case)
LowerChar(c) ==
    IF c \in 65..90 \/ (c \in 192..222 /\ c # 215) THEN c + 32 ELSE c

\* x.lower()
lower(s) == [i \in 1..Len(s) |-> LowerChar(s[i])]

\* a < b on str: lexicographic by code point
RECURSIVE StrLess(_, _)
StrLess(a, b) ==
    IF b = <<>> THEN FALSE
    ELSE IF a = <<>> THEN TRUE
    ELSE IF Head(a) # Head(b) THEN Head(a) < Head(b)
    ELSE StrLess(Tail(a), Tail(b))

\* line boundaries of str.splitlines
IsLineBreak(c) == c \in {10, 11, 12, 13, 28, 29, 30, 133, 8232, 8233}

RECURSIVE SplitFrom(_, _)
SplitFrom(cur, rest) ==
    IF rest = <<>> THEN (IF cur = <<>> THEN <<>> ELSE <<cur>>)
    ELSE IF IsLineBreak(Head(rest))
         THEN <<cur>> \o SplitFrom(<<>>, Tail(rest))
         ELSE SplitFrom(Append(cur, Head(rest)), Tail(rest))

\* text.splitlines()
splitlines(t) == SplitFrom(<<>>, t)

----------------------------------------------------------------------------
(* extract_file_paths *)

StripLinesKeepBlank(c) == [i \in 1..Len(c) |-> strip(c[i])]

\* [line.strip() for line in content if line.strip()]
RECURSIVE StripLines(_)
StripLines(c) ==
    IF c = <<>> THEN <<>>
    ELSE IF strip(Head(c)) # <<>>
         THEN <<strip(Head(c))>> \o StripLines(Tail(c))
         ELSE StripLines(Tail(c))

RECURSIVE UniqueFrom(_, _)
UniqueFrom(acc, rest) ==
    IF rest = <<>> THEN acc
    ELSE IF \E i \in 1..Len(acc) : acc[i] = Head(rest)
         THEN UniqueFrom(acc, Tail(rest))
         ELSE UniqueFrom(Append(acc, Head(rest)), Tail(rest))

KeepDuplicates(paths) == paths

\* the loop that appends each path not yet in unique_paths
unique_paths(paths) == UniqueFrom(<<>>, paths)

\* the key function of the sort
RawKey(x) == x

SortKey(x) == lower(x)

\* x goes before the first element whose key is greater: equal keys keep
\* their order of arrival, as in Python's stable sort
RECURSIVE InsertStable(_, _)
InsertStable(x, s) ==
    IF s = <<>> THEN <<x>>
    ELSE IF StrLess(SortKey(x), SortKey(Head(s)))
         THEN <<x>> \o s
         ELSE <<Head(s)>> \o InsertStable(x, Tail(s))

\* x goes before the first element whose key is not smaller
RECURSIVE InsertBeforeEqual(_, _)
InsertBeforeEqual(x, s) ==
    IF s = <<>> THEN <<x>>
    ELSE IF ~StrLess(SortKey(Head(s)), SortKey(x))
         THEN <<x>> \o s
         ELSE <<Head(s)>> \o InsertBeforeEqual(x, Tail(s))

Insert(x, s) == InsertStable(x, s)

RECURSIVE SortFrom(_, _)
SortFrom(acc, rest) ==
    IF rest = <<>> THEN acc
    ELSE SortFrom(Insert(Head(rest), acc), Tail(rest))

\* sorted(unique_paths, key=lambda x: x.lower())
sorted_paths(paths) == SortFrom(<<>>, paths)

extract_file_paths(c) ==
    IF c = <<>> THEN <<>>
    ELSE sorted_paths(unique_paths(StripLines(c)))

----------------------------------------------------------------------------
(* Codecs used by read_text(encoding=...) and str.encode *)

RECURSIVE Utf8Valid(_)
Utf8Valid(b) ==
    IF b = <<>> THEN TRUE
    ELSE IF b[1] < 128 THEN Utf8Valid(Tail(b))
    ELSE IF b[1] \in 194..223 /\ Len(b) >= 2 /\ b[2] \in 128..191
         THEN Utf8Valid(SubSeq(b, 3, Len(b)))
         ELSE FALSE

\* one- and two-byte forms; FileBytes holds no lead byte of a longer form
RECURSIVE Utf8Text(_)
Utf8Text(b) ==
    IF b = <<>> THEN <<>>
    ELSE IF b[1] < 128 THEN <<b[1]>> \o Utf8Text(Tail(b))
    ELSE <<(b[1] - 192) * 64 + (b[2] - 128)>> \o Utf8Text(SubSeq(b, 3, Len(b)))

\* the rows of the GBK table for lead bytes 0x81 and 0xC2 and trail bytes
\* 'A', 'a', 0x81, 0xC2: <<lead, trail, code point>>
GbkTable ==
    { <<129, 65, 19972>>, <<129, 97, 20068>>, <<129, 129, 20118>>,
      <<129, 194, 20270>>, <<194, 65, 32743>>, <<194, 97, 32801>>,
      <<194, 129, 32859>>, <<194, 194, 20387>> }

GbkPair(lead, trail) == \E r \in GbkTable : r[1] = lead /\ r[2] = trail

GbkCodePoint(lead, trail) ==
    (CHOOSE r \in GbkTable : r[1] = lead /\ r[2] = trail)[3]

RECURSIVE GbkValid(_)
GbkValid(b) ==
    IF b = <<>> THEN TRUE
    ELSE IF b[1] < 128 THEN GbkValid(Tail(b))
    ELSE IF Len(b) >= 2 /\ GbkPair(b[1], b[2])
         THEN GbkValid(SubSeq(b, 3, Len(b)))
         ELSE FALSE

RECURSIVE GbkText(_)
GbkText(b) ==
    IF b = <<>> THEN <<>>
    ELSE IF b[1] < 128 THEN <<b[1]>> \o GbkText(Tail(b))
    ELSE <<GbkCodePoint(b[1], b[2])>> \o GbkText(SubSeq(b, 3, Len(b)))

\* bytes.decode(encoding): [ok |-> FALSE] is UnicodeDecodeError
Decode(enc, b) ==
    IF enc = "utf-8"
    THEN [ok |-> Utf8Valid(b), text |-> IF Utf8Valid(b) THEN Utf8Text(b) ELSE <<>>]
    ELSE [ok |-> GbkValid(b), text |-> IF GbkValid(b) THEN GbkText(b) ELSE <<>>]

GbkEncodable(c) == c < 128 \/ \E r \in GbkTable : r[3] = c

GbkBytes(c) ==
    IF c < 128 THEN <<c>>
    ELSE LET r == CHOOSE q \in GbkTable : q[3] = c IN <<r[1], r[2]>>

Utf8Bytes(c) ==
    IF c < 128 THEN <<c>>
    ELSE IF c < 2048 THEN <<192 + (c \div 64), 128 + (c % 64)>>
    ELSE <<224 + (c \div 4096), 128 + ((c \div 64) % 64), 128 + (c % 64)>>

RECURSIVE Concat(_)
Concat(ss) == IF ss = <<>> THEN <<>> ELSE Head(ss) \o Concat(Tail(ss))

\* str.encode(encoding): [ok |-> FALSE] is UnicodeEncodeError
Encode(enc, t) ==
    IF enc = "gbk"
    THEN LET ok == \A i \in 1..Len(t) : GbkEncodable(t[i])
         IN  [ok |-> ok,
              bytes |-> IF ok THEN Concat([i \in 1..Len(t) |-> GbkBytes(t[i])])
                        ELSE <<>>]
    ELSE [ok |-> TRUE, bytes |-> Concat([i \in 1..Len(t) |-> Utf8Bytes(t[i])])]

----------------------------------------------------------------------------
(* The run: main -> process -> read_params_file, extract_file_paths,       *)
(* copy_file_paths                                                         *)

Platforms == {"win32", "linux"}

\* sys.platform.startswith('win')
IsWindows(p) == p = "win32"

_get_system_clipboard_encoding(p) == IF IsWindows(p) THEN "gbk" ELSE "utf-8"

\* "x.txt\ny.txt" as UTF-8 bytes
ScenarioFile == <<120, 46, 116, 120, 116, 10, 121, 46, 116, 120, 116>>

None == [none |-> TRUE, lines |-> <<>>]

Lines(ls) == [none |-> FALSE, lines |-> ls]

\* the classes `except Exception` catches, among those raised here
ExceptionSubclasses == {"UnicodeDecodeError", "UnicodeEncodeError", "OSError"}

BareExcept(e) == TRUE

\* `except Exception as e`
ExceptException(e) == e \in ExceptionSubclasses

JoinWithTrailingNewline(paths) == Concat([i \in 1..Len(paths) |-> paths[i] \o <<10>>])

\* '\n'.join(file_paths)
RECURSIVE JoinFrom(_)
JoinFrom(paths) ==
    IF paths = <<>> THEN <<>>
    ELSE IF Len(paths) = 1 THEN paths[1]
    ELSE paths[1] \o <<10>> \o JoinFrom(Tail(paths))

Join(paths) == JoinFrom(paths)

Init ==
    /\ platform \in Platforms
    /\ \/ fileKind \in {"missing", "dir", "unreadable"} /\ fileBytes = <<>>
       \/ /\ fileKind = "file"
          /\ fileBytes \in SeqsUpTo(FileBytes, MaxFileLen) \cup {ScenarioFile}
    /\ pc = "main"
    /\ clipboard_encoding = "unset"
    /\ attempts = <<>>
    /\ content = None
    /\ file_paths = <<>>
    /\ result = <<>>
    /\ out = <<>>
    /\ listing = <<>>
    /\ fallback = <<>>
    /\ popens = 0
    /\ clipInput = <<>>
    /\ clipStatus = -1
    /\ success = FALSE
    /\ exitCode = -1
    /\ interruptedAt = ""
    /\ calls = <<>>

\* main: FilePathExtractor(), then process' first print
Start ==
    /\ pc = "main"
    /\ clipboard_encoding' = _get_system_clipboard_encoding(platform)
    /\ out' = Append(out, "processing")
    /\ pc' = "read_utf8"
    /\ UNCHANGED <<platform, fileKind, fileBytes, attempts, content, file_paths,
                   result, listing, fallback, popens, clipInput, clipStatus,
                   success, exitCode, interruptedAt,
                   calls>>

\* read_params_file up to the UTF-8 read_text and its handlers
ReadUtf8 ==
    /\ calls' = Append(calls, "read_params_file")
    /\ pc = "read_utf8"
    /\ CASE fileKind = "missing" ->
              /\ out' = Append(out, "err_not_found")
              /\ content' = None /\ pc' = "loaded" /\ attempts' = attempts
         [] fileKind = "dir" ->
              /\ out' = Append(out, "err_not_file")
              /\ content' = None /\ pc' = "loaded" /\ attempts' = attempts
         [] fileKind = "unreadable" ->
              \* read_text raises OSError, caught by `except Exception`
              /\ attempts' = Append(attempts, "utf-8")
              /\ out' = Append(out, "err_read")
              /\ content' = None /\ pc' = "loaded"
         [] fileKind = "file" ->
              /\ attempts' = Append(attempts, "utf-8")
              /\ IF Decode("utf-8", fileBytes).ok
                 THEN /\ content' = Lines(splitlines(Decode("utf-8", fileBytes).text))
                      /\ pc' = "loaded"
                      /\ out' = out
                 ELSE /\ out' = Append(out, "err_utf8_retry")
                      /\ pc' = "read_gbk"
                      /\ content' = content
    /\ UNCHANGED <<platform, fileKind, fileBytes, clipboard_encoding, file_paths,
                   result, listing, fallback, popens, clipInput, clipStatus,
                   success, exitCode, interruptedAt>>

FallbackIsUtf8 == "utf-8"

\* read_text(encoding='gbk')
FallbackEncoding == "gbk"

\* the `except UnicodeDecodeError` handler of read_params_file
ReadGbk ==
    /\ pc = "read_gbk"
    /\ attempts' = Append(attempts, FallbackEncoding)
    /\ IF Decode(FallbackEncoding, fileBytes).ok
       THEN /\ content' = Lines(splitlines(Decode(FallbackEncoding, fileBytes).text))
            /\ out' = out
       ELSE /\ out' = Append(out, "err_read_gbk")
            /\ content' = None
    /\ pc' = "loaded"
    /\ UNCHANGED <<platform, fileKind, fileBytes, clipboard_encoding, file_paths,
                   result, listing, fallback, popens, clipInput, clipStatus,
                   success, exitCode, interruptedAt,
                   calls>>

\* process: `if content is None: return False`
CheckContent ==
    /\ pc = "loaded"
    /\ IF content.none
       THEN success' = FALSE /\ pc' = "main_exit"
       ELSE success' = success /\ pc' = "extract"
    /\ UNCHANGED <<platform, fileKind, fileBytes, clipboard_encoding, attempts,
                   content, file_paths, result, out, listing, fallback, popens,
                   clipInput, clipStatus, exitCode, interruptedAt,
                   calls>>

\* process: extract_file_paths and `if not file_paths: ... return True`
Extract ==
    /\ calls' = Append(calls, "extract_file_paths")
    /\ pc = "extract"
    /\ file_paths' = extract_file_paths(content.lines)
    /\ IF file_paths' = <<>>
       THEN /\ out' = Append(out, "hint_no_paths")
            /\ success' = TRUE
            /\ pc' = "main_exit"
       ELSE /\ out' = out /\ success' = success /\ pc' = "listing"
    /\ UNCHANGED <<platform, fileKind, fileBytes, clipboard_encoding, attempts,
                   content, result, listing, fallback, popens, clipInput,
                   clipStatus, exitCode, interruptedAt>>

\* process: the count and the enumerated listing
Listing ==
    /\ pc = "listing"
    /\ out' = Append(out, "found")
    /\ listing' = file_paths
    /\ pc' = "copy"
    /\ UNCHANGED <<platform, fileKind, fileBytes, clipboard_encoding, attempts,
                   content, file_paths, result, fallback, popens, clipInput,
                   clipStatus, success, exitCode, interruptedAt,
                   calls>>

\* copy_file_paths up to the platform branch, and its else branch
CopyStart ==
    /\ calls' = Append(calls, "copy_file_paths")
    /\ pc = "copy"
    /\ IF file_paths = <<>>
       THEN /\ out' = Append(out, "hint_nothing_to_copy")
            /\ success' = FALSE /\ pc' = "main_exit"
            /\ result' = result /\ fallback' = fallback
       ELSE /\ result' = Join(file_paths)
            /\ IF IsWindows(platform)
               THEN /\ pc' = "popen"
                    /\ out' = out /\ fallback' = fallback /\ success' = success
               ELSE /\ out' = Append(out, "unsupported")
                    /\ fallback' = result'
                    /\ success' = FALSE
                    /\ pc' = "main_exit"
    /\ UNCHANGED <<platform, fileKind, fileBytes, clipboard_encoding, attempts,
                   content, file_paths, listing, popens, clipInput, clipStatus,
                   exitCode, interruptedAt>>

\* the handler of copy_file_paths: `except Exception as e`
CopyFailed ==
    /\ out' = Append(out, "err_clipboard")
    /\ success' = FALSE
    /\ pc' = "main_exit"

\* subprocess.Popen(['clip'], stdin=PIPE, shell=True): the shell starts, or
\* OSError is raised
Popen ==
    /\ pc = "popen"
    /\ popens' = popens + 1
    /\ \E started \in BOOLEAN :
          IF started
          THEN pc' = "communicate" /\ out' = out /\ success' = success
          ELSE CopyFailed
    /\ UNCHANGED <<platform, fileKind, fileBytes, clipboard_encoding, attempts,
                   content, file_paths, result, listing, fallback, clipInput,
                   clipStatus, exitCode, interruptedAt,
                   calls>>

\* process.communicate(result.encode(self.clipboard_encoding)), the success
\* print and `return True`; clip's exit status is not read
Communicate ==
    /\ pc = "communicate"
    /\ LET e == Encode(clipboard_encoding, result) IN
          IF e.ok
          THEN /\ clipInput' = e.bytes
               /\ \E st \in {0, 1} : clipStatus' = st
               /\ out' = Append(out, "copied")
               /\ success' = TRUE
               /\ pc' = "main_exit"
          ELSE /\ CopyFailed
               /\ clipInput' = clipInput /\ clipStatus' = clipStatus
    /\ UNCHANGED <<platform, fileKind, fileBytes, clipboard_encoding, attempts,
                   content, file_paths, result, listing, fallback, popens,
                   exitCode, interruptedAt,
                   calls>>

ExitAlwaysZero(ok) == 0

\* main: `if not success: sys.exit(1)`, else the script ends
ExitCodeFor(ok) == IF ok THEN 0 ELSE 1

MainExit ==
    /\ pc = "main_exit"
    /\ exitCode' = ExitCodeFor(success)
    /\ pc' = "done"
    /\ UNCHANGED <<platform, fileKind, fileBytes, clipboard_encoding, attempts,
                   content, file_paths, result, out, listing, fallback, popens,
                   clipInput, clipStatus, success, interruptedAt,
                   calls>>

RunningPcs == {"main", "read_utf8", "read_gbk", "loaded", "extract", "listing",
               "copy", "popen", "communicate", "main_exit"}

\* KeyboardInterrupt raised at the current position: it meets the handlers
\* of the function it is raised in, then main's
Interrupt ==
    /\ pc \in RunningPcs
    /\ interruptedAt' = pc
    /\ IF pc \in {"read_utf8", "read_gbk"} /\ ExceptException("KeyboardInterrupt")
       THEN /\ out' = Append(out, IF pc = "read_gbk" THEN "err_read_gbk" ELSE "err_read")
            /\ content' = None /\ pc' = "loaded"
            /\ UNCHANGED <<file_paths, success, exitCode>>
       ELSE IF pc = "extract" /\ ExceptException("KeyboardInterrupt")
       THEN /\ out' = out \o <<"err_extract", "hint_no_paths">>
            /\ file_paths' = <<>> /\ success' = TRUE /\ pc' = "main_exit"
            /\ UNCHANGED <<content, exitCode>>
       ELSE IF pc \in {"copy", "popen", "communicate"} /\ ExceptException("KeyboardInterrupt")
       THEN /\ CopyFailed
            /\ UNCHANGED <<content, file_paths, exitCode>>
       ELSE \* main: `except KeyboardInterrupt`
            /\ out' = Append(out, "cancelled")
            /\ exitCode' = 0
            /\ pc' = "done"
            /\ UNCHANGED <<content, file_paths, success>>
    /\ UNCHANGED <<platform, fileKind, fileBytes, clipboard_encoding, attempts,
                   result, listing, fallback, popens, clipInput, clipStatus,
                   calls>>

Next ==
    \/ Start
    \/ ReadUtf8
    \/ ReadGbk
    \/ CheckContent
    \/ Extract
    \/ Listing
    \/ CopyStart
    \/ Popen
    \/ Communicate
    \/ MainExit
    \/ Interrupt

Spec == Init /\ [][Next]_vars

----------------------------------------------------------------------------
(* extract_file_paths on its own, for every list of raw lines within the   *)
(* bounds and the list of Scenario A                                       *)

\* ["b.txt", "", "A.txt", "a.txt", "  b.txt  "]
ScenarioA ==
    << <<98, 46, 116, 120, 116>>, <<>>, <<65, 46, 116, 120, 116>>,
       <<97, 46, 116, 120, 116>>, <<32, 32, 98, 46, 116, 120, 116, 32, 32>> >>

\* ["A.txt", "a.txt", "b.txt"]
ScenarioAOut ==
    << <<65, 46, 116, 120, 116>>, <<97, 46, 116, 120, 116>>,
       <<98, 46, 116, 120, 116>> >>

InitNorm ==
    /\ platform = "linux"
    /\ fileKind = "file"
    /\ fileBytes = <<>>
    /\ pc = "norm_input"
    /\ clipboard_encoding = "unset"
    /\ attempts = <<>>
    /\ content \in {Lines(ls) :
                      ls \in SeqsUpTo(SeqsUpTo(LineChars, MaxLineLen), MaxLines)
                             \cup {ScenarioA}}
    /\ file_paths = <<>>
    /\ result = <<>>
    /\ out = <<>>
    /\ listing = <<>>
    /\ fallback = <<>>
    /\ popens = 0
    /\ clipInput = <<>>
    /\ clipStatus = -1
    /\ success = FALSE
    /\ exitCode = -1
    /\ interruptedAt = ""
    /\ calls = <<>>

\* file_paths = self.extract_file_paths(content)
NormApply ==
    /\ pc = "norm_input"
    /\ file_paths' = extract_file_paths(content.lines)
    /\ calls' = Append(calls, "extract_file_paths")
    /\ pc' = "norm_once"
    /\ UNCHANGED <<platform, fileKind, fileBytes, clipboard_encoding, attempts,
                   content, result, out, listing, fallback, popens, clipInput,
                   clipStatus, success, exitCode, interruptedAt>>

\* extract_file_paths applied to its own return value
NormAgain ==
    /\ pc = "norm_once"
    /\ content' = Lines(file_paths)
    /\ file_paths' = extract_file_paths(file_paths)
    /\ calls' = Append(calls, "extract_file_paths")
    /\ pc' = "norm_twice"
    /\ UNCHANGED <<platform, fileKind, fileBytes, clipboard_encoding, attempts,
                   result, out, listing, fallback, popens, clipInput,
                   clipStatus, success, exitCode, interruptedAt>>

NextNorm ==
    \/ NormApply
    \/ NormAgain

SpecNorm == InitNorm /\ [][NextNorm]_vars

----------------------------------------------------------------------------
(* Properties *)

Entries(s) == {s[i] : i \in 1..Len(s)}

AllSpace(s) == \A k \in 1..Len(s) : IsSpace(s[k])

\* l from its first to its last code point that is not whitespace
Trimmed(l) ==
    LET ns == {k \in 1..Len(l) : ~IsSpace(l[k])}
    IN  IF ns = {} THEN <<>>
        ELSE SubSeq(l, CHOOSE k \in ns : \A m \in ns : k <= m,
                       CHOOSE k \in ns : \A m \in ns : m <= k)

\* t is l without its leading and trailing whitespace
IsTrimOf(t, l) == t = Trimmed(l)

\* the case-folded a is equal to the case-folded b
CIEq(a, b) ==
    /\ Len(a) = Len(b)
    /\ \A k \in 1..Len(a) : LowerChar(a[k]) = LowerChar(b[k])

\* the case-folded a is not greater than the case-folded b
CILeq(a, b) ==
    LET n == IF Len(a) < Len(b) THEN Len(a) ELSE Len(b)
        d == {k \in 1..n : LowerChar(a[k]) # LowerChar(b[k])}
    IN  IF d = {} THEN Len(a) <= Len(b)
        ELSE LET k == CHOOSE m \in d : \A o \in d : m <= o
             IN  LowerChar(a[k]) < LowerChar(b[k])

\* index of the first line of ls that trims to e
FirstOccurrence(ls, e) ==
    CHOOSE k \in 1..Len(ls) :
        /\ IsTrimOf(e, ls[k])
        /\ \A m \in 1..(k - 1) : ~IsTrimOf(e, ls[m])

Normalized == pc \in {"norm_once", "norm_twice"}

\* C4: Normalizer(L) holds exactly the distinct non-empty trimmed lines of
\* L, each once: no two entries are equal, no entry is empty or only
\* whitespace (or has whitespace left at either end), every entry is the
\* trim of a line of L, and the non-empty trim of every line of L is an entry.
C4_ExactlyDistinctTrimmedLines ==
    Normalized =>
        LET L == content.lines
            N == file_paths
        IN  /\ \A i, j \in 1..Len(N) : i # j => N[i] # N[j]
            /\ \A i \in 1..Len(N) : N[i] # <<>> /\ ~AllSpace(N[i])
            /\ \A i \in 1..Len(N) : \E k \in 1..Len(L) : IsTrimOf(N[i], L[k])
            /\ \A k \in 1..Len(L) :
                   Trimmed(L[k]) # <<>> => Trimmed(L[k]) \in Entries(N)

\* C4's case: two different raw lines trim to the same entry, a blank line
\* is dropped, one entry comes out
C4_Witness ==
    /\ pc = "norm_once"
    /\ Len(file_paths) = 1
    /\ \E k, m \in 1..Len(content.lines) :
          /\ content.lines[k] # content.lines[m]
          /\ IsTrimOf(file_paths[1], content.lines[k])
          /\ IsTrimOf(file_paths[1], content.lines[m])

\* C5: Normalizer(L) is ascending under case-insensitive comparison, entries
\* with equal case-folded keys come in the order of their first occurrence
\* in L, and Scenario A's lines give ["A.txt", "a.txt", "b.txt"].
C5_SortedCaseInsensitiveStable ==
    Normalized =>
        LET L == content.lines
            N == file_paths
        IN  /\ \A i, j \in 1..Len(N) : i < j => CILeq(N[i], N[j])
            /\ \A i, j \in 1..Len(N) :
                   i < j /\ CIEq(N[i], N[j]) =>
                       FirstOccurrence(L, N[i]) < FirstOccurrence(L, N[j])
            /\ L = ScenarioA => N = ScenarioAOut

\* C5's case: Scenario A has been normalized
C5_Witness ==
    /\ pc = "norm_once"
    /\ content.lines = ScenarioA
    /\ file_paths = ScenarioAOut

\* C6: Normalizer(Normalizer(L)) = Normalizer(L): after the second
\* application, whose input was the first one's output, the output is the
\* input, entry by entry.
C6_Idempotent ==
    pc = "norm_twice" => file_paths = content.lines

\* C6's case: the second application ran on a list with two entries that
\* differ only in case
C6_Witness ==
    /\ pc = "norm_twice"
    /\ Len(file_paths) >= 2
    /\ \E i, j \in 1..Len(file_paths) :
          i # j /\ CIEq(file_paths[i], file_paths[j])

----------------------------------------------------------------------------
(* Properties of the run.  A run whose KeyboardInterrupt was raised is     *)
(* the subject of C9; the claims about the other outcomes are about runs   *)
(* in which none was raised.                                               *)

Done == pc = "done"

Uninterrupted == interruptedAt = ""

Printed(msg) == \E i \in 1..Len(out) : out[i] = msg

Called(f) == \E i \in 1..Len(calls) : calls[i] = f

\* the file's bytes decode under neither encoding, or there is no file to read
LoaderFails ==
    \/ fileKind \in {"missing", "dir", "unreadable"}
    \/ fileKind = "file" /\ ~Utf8Valid(fileBytes) /\ ~GbkValid(fileBytes)

LoaderErrors == {"err_not_found", "err_not_file", "err_read", "err_read_gbk"}

\* the text the Loader decodes the file to
LoadedText ==
    IF Utf8Valid(fileBytes) THEN Utf8Text(fileBytes) ELSE GbkText(fileBytes)

\* text.split('\n')
RECURSIVE SplitOnNewline(_, _)
SplitOnNewline(cur, rest) ==
    IF rest = <<>> THEN <<cur>>
    ELSE IF Head(rest) = 10
         THEN <<cur>> \o SplitOnNewline(<<>>, Tail(rest))
         ELSE SplitOnNewline(Append(cur, Head(rest)), Tail(rest))

\* C1: on a platform without a clipboard mechanism, a run whose Loader
\* succeeded and whose PathList is not empty prints the newline-joined paths
\* as fallback and ends with exit code 0.
C1_FallbackExitsZero ==
    (Done /\ Uninterrupted /\ ~IsWindows(platform) /\ ~content.none
          /\ file_paths # <<>>) =>
        /\ Printed("unsupported")
        /\ SplitOnNewline(<<>>, fallback) = file_paths
        /\ exitCode = 0

\* C2: a run whose Loader fails reports the error, calls neither the
\* Normalizer nor the Clipboard Writer, and ends with exit code 1.
C2_LoaderFailureExitsOne ==
    (Done /\ Uninterrupted /\ LoaderFails) =>
        /\ \E m \in LoaderErrors : Printed(m)
        /\ calls = <<"read_params_file">>
        /\ popens = 0 /\ clipStatus = -1 /\ fallback = <<>>
        /\ ~Printed("copied") /\ ~Printed("hint_no_paths")
        /\ exitCode = 1

\* C2's case: a file that decodes under neither encoding ended the run
C2_Witness ==
    /\ Done /\ Uninterrupted
    /\ fileKind = "file" /\ ~Utf8Valid(fileBytes) /\ ~GbkValid(fileBytes)
    /\ attempts = <<"utf-8", "gbk">>
    /\ exitCode = 1

\* C3: for a readable file that is empty or holds only whitespace, on either
\* platform, the Normalizer returns the empty list, "no valid paths found" is
\* reported, nothing is written to the clipboard, and the exit code is 0.
C3_BlankFileExitsZero ==
    (Done /\ Uninterrupted /\ fileKind = "file" /\ ~LoaderFails
          /\ AllSpace(LoadedText)) =>
        /\ file_paths = <<>>
        /\ Called("extract_file_paths")
        /\ Printed("hint_no_paths")
        /\ ~Called("copy_file_paths")
        /\ popens = 0 /\ clipStatus = -1 /\ fallback = <<>>
        /\ exitCode = 0

\* C3's case: a file of blank lines only ended the run on the platform that
\* has a clipboard
C3_Witness ==
    /\ Done /\ Uninterrupted /\ IsWindows(platform)
    /\ fileKind = "file" /\ Len(fileBytes) >= 2 /\ AllSpace(fileBytes)
    /\ Len(content.lines) >= 2
    /\ exitCode = 0

AfterLoad == pc \in {"loaded", "extract", "listing", "copy", "popen",
                     "communicate", "main_exit"}
             \/ (Done /\ interruptedAt \notin {"main", "read_utf8", "read_gbk"})

WriteSucceeded == clipStatus = 0

\* C8: on the platform with a clipboard, when the write of a non-empty
\* PathList fails (the text cannot be encoded, the command cannot be
\* started, the command fails), the exit code is not 0 and no "copied" is
\* reported; exit code 0 with "copied" comes only with a write that succeeded.
C8_FailedWriteExitsNonZero ==
    (Done /\ Uninterrupted /\ IsWindows(platform) /\ Called("copy_file_paths")
          /\ file_paths # <<>>) =>
        /\ ~WriteSucceeded => exitCode # 0 /\ ~Printed("copied")
        /\ (exitCode = 0 /\ Printed("copied")) => WriteSucceeded

\* C9: a KeyboardInterrupt raised at any step is handled by main alone: the
\* run is over, the last message is the cancellation message, the exit code
\* is 0, and after a successful load no handler of extract_file_paths or
\* copy_file_paths has reported it as an error.
C9_InterruptExitsZero ==
    interruptedAt # "" =>
        /\ Done
        /\ out # <<>> /\ out[Len(out)] = "cancelled"
        /\ interruptedAt \in {"extract", "listing", "copy", "popen", "communicate"}
               => ~Printed("err_read") /\ ~Printed("err_extract")
                  /\ ~Printed("err_clipboard") /\ ~Printed("unexpected")
        /\ exitCode = 0

\* C9's case: the interrupt came during the clipboard write
C9_Witness ==
    /\ Done
    /\ interruptedAt = "communicate"
    /\ popens = 1

\* C10: the clipboard command is started at most once, and only after
\* read_params_file, extract_file_paths (non-empty) and the listing, in that
\* order; the bytes handed to it are the encoding of the entries of the
\* PathList, in order, joined by single newlines with none at either end,
\* the same entries in the same order as the listing.
C10_OneWriteOfJoinedPathList ==
    /\ popens <= 1
    /\ popens = 1 =>
          /\ calls = <<"read_params_file", "extract_file_paths", "copy_file_paths">>
          /\ ~content.none
          /\ file_paths = extract_file_paths(content.lines)
          /\ file_paths # <<>>
          /\ Printed("found") /\ listing = file_paths
    /\ clipStatus # -1 =>
          /\ popens = 1
          /\ Decode(clipboard_encoding, clipInput).ok
          /\ LET text == Decode(clipboard_encoding, clipInput).text
             IN  /\ text = result
                 /\ SplitOnNewline(<<>>, text) = file_paths
                 /\ text[1] # 10 /\ text[Len(text)] # 10
          /\ listing = file_paths

\* C10's case: a PathList of several entries was handed to the clipboard
C10_Witness ==
    /\ Done /\ Uninterrupted
    /\ clipStatus = 0
    /\ Len(file_paths) >= 2
    /\ Len(clipInput) >= 3

====
